---------------------------- MODULE Spec2Model ----------------------------
(***************************************************************************)
(* cassandra-stat (src/cassandra-toolbox/cassandra-stat.py): the poll loop *)
(* of CassandraStat, its aggregation of JMX samples into a snapshot, the   *)
(* differencing of two snapshots and the filter that decides which rows    *)
(* are printed.                                                            *)
(*                                                                         *)
(* Representation.  A Python dict is a function; the empty dict is <<>>.   *)
(* A namespace string is the sequence of its dot-free segments:            *)
(* "ks1.cf1" is <<"ks1","cf1">>, "ks1" is <<"ks1">>, "total" is            *)
(* <<"total">>; keyspace and column family names hold no dot, so           *)
(* "{ksp}.{cf}".format(...) is <<ksp, cf>> and `"." in s` is Len(s) > 1.   *)
(* A JMX key "uri:k1=v1,k2=v2" is the record of its uri and the sequence   *)
(* of its <<k, v>> pairs.                                                  *)
(***************************************************************************)
EXTENDS Integers, Sequences, FiniteSets, TLC

VARIABLES
    cfg,            \* the constructor's arguments (self.show_total, ...)
    pc,             \* position of the process in run()
    batch_cnt,      \* run(): batch_cnt
    previous_data,  \* self.previous_data
    current_data,   \* self.current_data
    retval,         \* get_data(): the snapshot under construction
    mi,             \* get_data(): index of the catalog entry fetched next
    resp,           \* fetch_and_update(): the response being processed
    diffed,         \* the value diffdata() returned to print_data()
    rows,           \* the data lines print_dataline() printed, by namespace
    printed,        \* history: TRUE once any data line was printed
    headers,        \* history: number of header lines printed
    interval,       \* history: number of loop iterations started
    errs,           \* history: catalog entries answered with an error now
    prev_errs,      \* history: the same, for the preceding iteration
    truth,          \* history: retval, had no fetch been answered with an error
    prev_truth,     \* history: the same, for the preceding iteration
    events,         \* history: fetches of this iteration the agent had data for
    exc,            \* the exception that ended the process, "none" if none
    exit_code       \* the exit status once pc = "exited"

vars == <<cfg, pc, batch_cnt, previous_data, current_data, retval, mi, resp,
          diffed, rows, printed, headers, interval, errs, prev_errs, truth,
          prev_truth, events, exc, exit_code>>

----------------------------------------------------------------------------
(* Bounds of the model.                                                    *)

\* loop iterations the model follows
MaxIntervals == 3
\* fetches of one iteration for which the agent holds a non-empty value map
MaxEvents == 1
\* entries of one response when fetch_and_update is checked as a function
\* of its response
MaxEntries == 2
\* largest header_rows argument
MaxHeaderRows == 2

----------------------------------------------------------------------------
(* Python dicts.                                                           *)

EmptyDict == <<>>

Get(d, k, default) == IF k \in DOMAIN d THEN d[k] ELSE default

Put(d, k, v) == [x \in (DOMAIN d) \cup {k} |-> IF x = k THEN v ELSE d[x]]

Truthy(d) == DOMAIN d # {}

Range(s) == {s[i] : i \in DOMAIN s}

----------------------------------------------------------------------------
(* The metric catalog, self.metrics.  A flag the literal omits is FALSE,   *)
(* as metric.get("sum", False) and x.get("nonzero") read it.               *)

Metric(n, k, d, s, df, nz) ==
    [metric_name |-> n, metric_key |-> k, display_name |-> d,
     sum |-> s, diff |-> df, nonzero |-> nz]

metrics ==
    << Metric("ReadLatency", "Count", "Reads", TRUE, TRUE, TRUE),
       Metric("RangeLatency", "Count", "Ranges", TRUE, TRUE, TRUE),
       Metric("WriteLatency", "Count", "Writes", TRUE, TRUE, TRUE),
       Metric("ReadLatency", "99thPercentile", "Reads (99%) ms",
              FALSE, FALSE, FALSE),
       Metric("RangeLatency", "99thPercentile", "Ranges (99%) ms",
              FALSE, FALSE, FALSE),
       Metric("WriteLatency", "99thPercentile", "Writes (99%) ms",
              FALSE, FALSE, FALSE),
       Metric("PendingCompactions", "Value", "Compactions",
              TRUE, FALSE, FALSE),
       Metric("PendingFlushes", "Count", "Flushes", TRUE, FALSE, FALSE),
       Metric("RowCacheMiss", "Count", "Row Cache Misses",
              TRUE, TRUE, FALSE) >>

DisplayNames == {metrics[i].display_name : i \in DOMAIN metrics}

TOTAL == <<"total">>

SystemKeyspaces == {"system", "system_keyspaces", "system_auth"}

\* ns = None
None == <<>>


----------------------------------------------------------------------------
(* fetch_and_update: one response folded into the snapshot.                *)

\* parse_jmx_key: the dict of the key's pairs; a later pair of the same name
\* replaces an earlier one, as in a dict comprehension.
parse_jmx_key(key) ==
    LET kvs == key.kvs
        Last(k) == CHOOSE i \in DOMAIN kvs :
                      /\ kvs[i][1] = k
                      /\ \A j \in DOMAIN kvs : kvs[j][1] = k => j <= i
    IN [k \in {kvs[i][1] : i \in DOMAIN kvs} |-> kvs[Last(k)][2]]

\* include_namespace comparing every entry with the keyspace only
include_namespace_keyspace_only(namespaces, full_namespace, keyspace) ==
    \E i \in DOMAIN namespaces : namespaces[i][1] = keyspace

\* lines 328-340: the allow-list loop; TRUE iff include_namespace ends True
include_namespace(namespaces, full_namespace, keyspace) ==
    \E i \in DOMAIN namespaces :
        IF Len(namespaces[i]) > 1
        THEN namespaces[i] = full_namespace
        ELSE namespaces[i] = <<keyspace>>

\* select_ns with show_keyspace tested before show_cfs
select_ns_keyspace_first(c, full_namespace, keyspace) ==
    IF c.show_keyspace THEN <<keyspace>>
    ELSE IF c.show_cfs THEN full_namespace
    ELSE None

\* lines 347-352: the namespace the sample is stored under
select_ns(c, full_namespace, keyspace) ==
    IF c.show_cfs THEN full_namespace
    ELSE IF c.show_keyspace THEN <<keyspace>>
    ELSE None

\* combine_ns with the sum flag ignored: the larger value is always kept
combine_ns_max(old, new, sum_values) ==
    IF old < new THEN new ELSE old

\* lines 360-363: a later contribution to data[ns][internalname]
combine_ns(old, new, sum_values) ==
    IF sum_values THEN old + new
    ELSE IF old < new THEN new ELSE old

\* the builtin function `sum`, tested at line 369, is true
builtin_sum == TRUE

\* combine_total keeping the larger value
combine_total_max(old, new, sum_values) ==
    IF old < new THEN new ELSE old

\* lines 369-372: a later contribution to data["total"][internalname];
\* the condition reads the builtin `sum`, not sum_values
combine_total(old, new, sum_values) ==
    IF builtin_sum THEN old + new
    ELSE IF old < new THEN new ELSE old

\* lines 354-363
accumulate_ns(data, ns, internalname, value, sum_values) ==
    LET d0 == IF ns \notin DOMAIN data THEN Put(data, ns, EmptyDict) ELSE data
    IN IF internalname \notin DOMAIN d0[ns]
       THEN Put(d0, ns, Put(d0[ns], internalname, value))
       ELSE Put(d0, ns, Put(d0[ns], internalname,
                            combine_ns(d0[ns][internalname], value, sum_values)))

\* lines 365-372; data["total"] exists whenever show_total is set (get_data)
accumulate_total(data, internalname, value, sum_values) ==
    IF internalname \notin DOMAIN data[TOTAL]
    THEN Put(data, TOTAL, Put(data[TOTAL], internalname, value))
    ELSE Put(data, TOTAL, Put(data[TOTAL], internalname,
                 combine_total(data[TOTAL][internalname], value, sum_values)))

\* included without the test of the system keyspaces
included_any_keyspace(c, fields) ==
    /\ "keyspace" \in DOMAIN fields
    /\ \/ c.namespaces = <<>>
       \/ include_namespace(c.namespaces,
                            <<fields["keyspace"], fields["scope"]>>,
                            fields["keyspace"])

\* lines 305-340: the sample passes the keyspace, system and allow-list tests
included(c, fields) ==
    /\ "keyspace" \in DOMAIN fields
    /\ ~(fields["keyspace"] \in SystemKeyspaces /\ ~c.show_system)
    /\ \/ c.namespaces = <<>>
       \/ include_namespace(c.namespaces,
                            <<fields["keyspace"], fields["scope"]>>,
                            fields["keyspace"])

\* update_entry adding to "total" only what it stored under a namespace
update_entry_total_needs_ns(data, entry, internalname, sum_values, c) ==
    LET fields == parse_jmx_key(entry.key)
    IN IF ~included(c, fields) THEN data
       ELSE LET full_namespace == <<fields["keyspace"], fields["scope"]>>
                ns == select_ns(c, full_namespace, fields["keyspace"])
                d1 == IF ns # None
                      THEN accumulate_ns(data, ns, internalname, entry.value,
                                         sum_values)
                      ELSE data
            IN IF c.show_total /\ ns # None
               THEN accumulate_total(d1, internalname, entry.value, sum_values)
               ELSE d1

\* lines 301-372: the body of the loop over jmx_data.items()
update_entry(data, entry, internalname, sum_values, c) ==
    LET fields == parse_jmx_key(entry.key)
    IN IF ~included(c, fields) THEN data
       ELSE LET full_namespace == <<fields["keyspace"], fields["scope"]>>
                ns == select_ns(c, full_namespace, fields["keyspace"])
                d1 == IF ns # None
                      THEN accumulate_ns(data, ns, internalname, entry.value,
                                         sum_values)
                      ELSE data
            IN IF c.show_total
               THEN accumulate_total(d1, internalname, entry.value, sum_values)
               ELSE d1

RECURSIVE update_all(_, _, _, _, _)
\* lines 300-372: the loop, in the order the dict yields its items
update_all(data, jmx_data, internalname, sum_values, c) ==
    IF jmx_data = <<>> THEN data
    ELSE update_all(update_entry(data, Head(jmx_data), internalname,
                                 sum_values, c),
                    Tail(jmx_data), internalname, sum_values, c)

\* line 290: the response reports an error
source_error(r) == r.status_code >= 400 \/ r.error

\* lines 290-372: fetch_and_update once the GET has returned r
fetch_and_update(data, metric, r, c) ==
    IF source_error(r) THEN data
    ELSE update_all(data, r.value, metric.display_name, metric.sum, c)

\* lines 392-394: get_data's initial snapshot
initial_retval(c) ==
    IF c.show_total THEN Put(EmptyDict, TOTAL, EmptyDict) ELSE EmptyDict


----------------------------------------------------------------------------
(* diffdata and print_dataline.                                            *)

\* line 429: metric("diff") calls a dict, which raises TypeError
metric_call_raises == TRUE

\* lines 430-439: the cell diffdata stores for one namespace and metric
diff_cell(metric, current_metric_data, prev, ns) ==
    IF metric.diff
    THEN Get(current_metric_data, metric.display_name, 0)
         - Get(Get(prev, ns, EmptyDict), metric.display_name, 0)
    ELSE Get(current_metric_data, metric.display_name, 0)

\* lines 423-440: what diffdata does, the exception it raises ("none" if it
\* returns) and the value it returns.  The loops reach line 429 as soon as
\* current_data holds a namespace.
diffdata(cur, prev) ==
    IF Truthy(cur) /\ Len(metrics) > 0 /\ metric_call_raises
    THEN [exc |-> "TypeError", value |-> EmptyDict]
    ELSE [exc |-> "none",
          value |-> [ns \in DOMAIN cur |->
                       [d \in (DOMAIN cur[ns]) \cup
                              (IF Len(metrics) > 0 THEN DisplayNames ELSE {})
                          |-> IF d \in DisplayNames
                              THEN LET m == CHOOSE i \in DOMAIN metrics :
                                                metrics[i].display_name = d
                                   IN diff_cell(metrics[m], cur[ns], prev, ns)
                              ELSE cur[ns][d]]]]

\* line 454
nonzero_fields == {i \in DOMAIN metrics : metrics[i].nonzero}

\* ns_nonzero_fields testing `> 0` where the code tests truth
ns_nonzero_fields_positive(metric_data) ==
    {y \in nonzero_fields :
        Get(metric_data, metrics[y].display_name, 0) > 0}

\* lines 464-466: metric_data.get(name) is true iff present and not 0
ns_nonzero_fields(metric_data) ==
    {y \in nonzero_fields :
        Get(metric_data, metrics[y].display_name, 0) # 0}

\* show_line without the clause for the "total" row
show_line_no_total_clause(ns, metric_data, c) ==
    \/ ns_nonzero_fields(metric_data) # {}
    \/ c.show_zeros
    \/ nonzero_fields = {}

\* lines 481-484: the condition under which the line of ns is printed
show_line(ns, metric_data, c) ==
    \/ (ns_nonzero_fields(metric_data) # {} \/ c.show_zeros
        \/ nonzero_fields = {})
    \/ (ns = TOTAL /\ c.show_total)

\* lines 486-492: the cells of the printed line, metric_data.get(name, 0)
dataline(metric_data) ==
    [d \in DisplayNames |-> Get(metric_data, d, 0)]

\* lines 457-496: the lines print_dataline prints, by namespace
printed_lines(data, c) ==
    LET shown == {ns \in DOMAIN data : show_line(ns, data[ns], c)}
    IN [ns \in shown |-> dataline(data[ns])]

\* line 499: len(number_of_printed_ns) takes len() of an int, which raises
\* TypeError
len_of_int_raises == TRUE

----------------------------------------------------------------------------
(* The responses of the jolokia agent.                                     *)

JmxUri == "org.apache.cassandra.metrics"

\* the key of a column family's metric; resource = <<keyspace, scope>>, and
\* <<>> for the entry jolokia aggregates over all column families
JmxKey(resource, metric) ==
    [uri |-> JmxUri,
     kvs |-> IF resource = <<>>
             THEN << <<"name", metric.metric_name>>,
                     <<"type", "ColumnFamily">> >>
             ELSE << <<"keyspace", resource[1]>>,
                     <<"name", metric.metric_name>>,
                     <<"scope", resource[2]>>,
                     <<"type", "ColumnFamily">> >>]

\* the value maps of at most n entries over the resources, in the order the
\* dict yields them; a dict holds each key once
ValueMaps(resources, vals, n, metric) ==
    LET E == {[key |-> JmxKey(r, metric), value |-> v] :
                 r \in resources, v \in vals}
    IN {s \in UNION {[1..k -> E] : k \in 0..n} :
           \A i, j \in DOMAIN s : i # j => s[i].key # s[j].key}

OkResponse(vm) == [status_code |-> 200, error |-> FALSE, value |-> vm]

ErrorResponses ==
    {[status_code |-> 404, error |-> TRUE, value |-> <<>>],
     [status_code |-> 200, error |-> TRUE, value |-> <<>>]}

NoResponse == [status_code |-> 0, error |-> FALSE, value |-> <<>>]

LoopResources == {<<"ks1", "cf1">>}

\* the raw values of the samples while the loop is followed
LoopValues == {1, 2}

\* the catalog entries the agent holds data for while the loop is followed
LoopLive == {1, 4}

\* the value maps the agent holds for catalog entry i in the loop
LoopValueMaps(i) ==
    IF i \in LoopLive
    THEN ValueMaps(LoopResources, LoopValues, 1, metrics[i])
    ELSE {<<>>}

LoopConfigs ==
    [show_system : {FALSE}, show_keyspace : BOOLEAN, show_cfs : BOOLEAN,
     show_total : BOOLEAN, show_zeros : {FALSE},
     namespaces : {<<>>}, header_rows : -1..MaxHeaderRows]

----------------------------------------------------------------------------
(* The process: main(), CassandraStat.__init__, run(), print_data(),       *)
(* get_data().                                                             *)

Init ==
    /\ cfg \in LoopConfigs
    /\ pc = "start"
    /\ batch_cnt = 0
    /\ previous_data = EmptyDict
    /\ current_data = EmptyDict
    /\ retval = EmptyDict
    /\ mi = 1
    /\ resp = NoResponse
    /\ diffed = EmptyDict
    /\ rows = EmptyDict
    /\ printed = FALSE
    /\ headers = 0
    /\ interval = 0
    /\ errs = {}
    /\ prev_errs = {}
    /\ truth = EmptyDict
    /\ prev_truth = EmptyDict
    /\ events = 0
    /\ exc = "none"
    /\ exit_code = 0

\* an exception no handler catches ends the process with status 1
Die(e) ==
    /\ pc' = "exited"
    /\ exc' = e
    /\ exit_code' = 1

\* run(), lines 155-157
Start ==
    /\ pc = "start"
    /\ batch_cnt' = 0
    /\ headers' = IF cfg.header_rows >= 0 THEN headers + 1 ELSE headers
    /\ pc' = "loop"
    /\ UNCHANGED <<cfg, previous_data, current_data, retval, mi, resp, diffed,
                   rows, printed, interval, errs, prev_errs, truth,
                   prev_truth, events, exc, exit_code>>

\* run(), lines 159-165, up to the first fetch of print_data()/get_data()
\* (lines 511, 392-394)
LoopTop ==
    /\ pc = "loop"
    /\ interval < MaxIntervals
    /\ LET b1 == IF Truthy(previous_data) THEN batch_cnt + 1 ELSE batch_cnt
       IN IF b1 = cfg.header_rows
          THEN batch_cnt' = 1 /\ headers' = headers + 1
          ELSE batch_cnt' = b1 /\ headers' = headers
    /\ retval' = initial_retval(cfg)
    /\ truth' = initial_retval(cfg)
    /\ mi' = 1
    /\ interval' = interval + 1
    /\ errs' = {}
    /\ events' = 0
    /\ diffed' = EmptyDict
    /\ rows' = EmptyDict
    /\ pc' = "fetch"
    /\ UNCHANGED <<cfg, previous_data, current_data, resp, printed, prev_errs,
                   prev_truth, exc, exit_code>>

\* the agent has data for this fetch only while the iteration's budget lasts
Budget(vm) ==
    /\ vm # <<>> => events < MaxEvents
    /\ events' = IF vm # <<>> THEN events + 1 ELSE events

\* the handler of ConnectionError calling sys.exit(0)
ConnectionErrorExit_status0 ==
    /\ pc' = "exited"
    /\ exc' = "SystemExit"
    /\ exit_code' = 0

\* lines 280-289: the handler of ConnectionError prints the advice and calls
\* sys.exit(1); main() catches KeyboardInterrupt only
ConnectionErrorExit ==
    /\ pc' = "exited"
    /\ exc' = "SystemExit"
    /\ exit_code' = 1

\* fetch_and_update, lines 274-289: requests.get raises ConnectionError
FetchConnectionError ==
    /\ pc = "fetch"
    /\ mi <= Len(metrics)
    /\ ConnectionErrorExit
    /\ UNCHANGED <<cfg, batch_cnt, previous_data, current_data, retval, mi,
                   resp, diffed, rows, printed, headers, interval, errs,
                   prev_errs, truth, prev_truth, events>>

\* fetch_and_update, lines 290-297: the agent reports an error instead of
\* the value map vm it holds
FetchSourceError ==
    /\ pc = "fetch"
    /\ mi <= Len(metrics)
    /\ mi \in LoopLive
    /\ \E r \in ErrorResponses, vm \in LoopValueMaps(mi) :
          /\ Budget(vm)
          /\ retval' = fetch_and_update(retval, metrics[mi], r, cfg)
          /\ truth' = fetch_and_update(truth, metrics[mi], OkResponse(vm), cfg)
    /\ errs' = errs \cup {mi}
    /\ mi' = mi + 1
    /\ UNCHANGED <<cfg, pc, batch_cnt, previous_data, current_data, resp,
                   diffed, rows, printed, headers, interval, prev_errs,
                   prev_truth, exc, exit_code>>

\* fetch_and_update, lines 298-372: the agent answers with the value map
FetchOk ==
    /\ pc = "fetch"
    /\ mi <= Len(metrics)
    /\ \E vm \in LoopValueMaps(mi) :
          /\ Budget(vm)
          /\ retval' = fetch_and_update(retval, metrics[mi], OkResponse(vm),
                                        cfg)
          /\ truth' = fetch_and_update(truth, metrics[mi], OkResponse(vm), cfg)
    /\ mi' = mi + 1
    /\ UNCHANGED <<cfg, pc, batch_cnt, previous_data, current_data, resp,
                   diffed, rows, printed, headers, interval, errs, prev_errs,
                   prev_truth, exc, exit_code>>

\* GetDataReturn with the stage run in every iteration but the first
GetDataReturn_not_first ==
    /\ pc = "fetch"
    /\ mi = Len(metrics) + 1
    /\ current_data' = retval
    /\ pc' = IF interval > 1 THEN "diff" ELSE "advance"
    /\ UNCHANGED <<cfg, batch_cnt, previous_data, retval, mi, resp, diffed,
                   rows, printed, headers, interval, errs, prev_errs, truth,
                   prev_truth, events, exc, exit_code>>

\* get_data returns (line 404); print_data, lines 511-512
GetDataReturn ==
    /\ pc = "fetch"
    /\ mi = Len(metrics) + 1
    /\ current_data' = retval
    /\ pc' = IF Truthy(previous_data) THEN "diff" ELSE "advance"
    /\ UNCHANGED <<cfg, batch_cnt, previous_data, retval, mi, resp, diffed,
                   rows, printed, headers, interval, errs, prev_errs, truth,
                   prev_truth, events, exc, exit_code>>

\* print_data, line 513: the call of diffdata()
DiffData ==
    /\ pc = "diff"
    /\ LET r == diffdata(current_data, previous_data)
       IN IF r.exc # "none"
          THEN /\ Die(r.exc)
               /\ UNCHANGED diffed
          ELSE /\ diffed' = r.value
               /\ pc' = "print"
               /\ UNCHANGED <<exc, exit_code>>
    /\ UNCHANGED <<cfg, batch_cnt, previous_data, current_data, retval, mi,
                   resp, rows, printed, headers, interval, errs, prev_errs,
                   truth, prev_truth, events>>

\* print_data, line 513: the call of print_dataline(), lines 454-500
PrintDataline ==
    /\ pc = "print"
    /\ rows' = printed_lines(diffed, cfg)
    /\ printed' = (printed \/ Truthy(rows'))
    /\ IF len_of_int_raises
       THEN Die("TypeError")
       ELSE pc' = "advance" /\ UNCHANGED <<exc, exit_code>>
    /\ UNCHANGED <<cfg, batch_cnt, previous_data, current_data, retval, mi,
                   resp, diffed, headers, interval, errs, prev_errs, truth,
                   prev_truth, events>>

\* run(), line 166
Advance ==
    /\ pc = "advance"
    /\ previous_data' = current_data
    /\ prev_truth' = truth
    /\ prev_errs' = errs
    /\ pc' = "loop"
    /\ UNCHANGED <<cfg, batch_cnt, current_data, retval, mi, resp, diffed,
                   rows, printed, headers, interval, errs, truth, events, exc,
                   exit_code>>

\* Interrupt with the handler calling sys.exit(1)
Interrupt_status1 ==
    /\ pc # "exited"
    /\ pc' = "exited"
    /\ exc' = "KeyboardInterrupt"
    /\ exit_code' = 1
    /\ UNCHANGED <<cfg, batch_cnt, previous_data, current_data, retval, mi,
                   resp, diffed, rows, printed, headers, interval, errs,
                   prev_errs, truth, prev_truth, events>>

\* main(), lines 640-641: a keyboard interrupt ends the process with status 0
Interrupt ==
    /\ pc # "exited"
    /\ pc' = "exited"
    /\ exc' = "KeyboardInterrupt"
    /\ exit_code' = 0
    /\ UNCHANGED <<cfg, batch_cnt, previous_data, current_data, retval, mi,
                   resp, diffed, rows, printed, headers, interval, errs,
                   prev_errs, truth, prev_truth, events>>

Next ==
    \/ Start
    \/ LoopTop
    \/ FetchConnectionError
    \/ FetchSourceError
    \/ FetchOk
    \/ GetDataReturn
    \/ DiffData
    \/ PrintDataline
    \/ Advance
    \/ Interrupt

Spec == Init /\ [][Next]_vars


----------------------------------------------------------------------------
(* fetch_and_update as a function of the response: one call on the         *)
(* snapshot get_data starts from.                                          *)

AggResources ==
    {<<"ks1", "cf1">>, <<"ks1", "cf2">>, <<"ks2", "cf3">>, <<"ks2", "cf4">>,
     <<"system", "local">>, <<>>}

\* the raw values of the samples
AggValues == {1, 2}

\* one catalog entry of each kind: a significant counter, a Max gauge, a Sum
\* gauge and a counter that is not significant
AggMetrics == {1, 4, 7, 9}

AggAllowLists == {<<>>, << <<"ks1">>, <<"ks2", "cf3">> >>}

AggConfigs ==
    [show_system : BOOLEAN, show_keyspace : BOOLEAN, show_cfs : BOOLEAN,
     show_total : BOOLEAN, show_zeros : {FALSE},
     namespaces : AggAllowLists, header_rows : {0}]

AggResponses(i) ==
    ErrorResponses \cup
    {OkResponse(vm) :
        vm \in ValueMaps(AggResources, AggValues, MaxEntries, metrics[i])}

InitAgg ==
    /\ cfg \in AggConfigs
    /\ pc = "fetch"
    /\ mi \in AggMetrics
    /\ resp \in AggResponses(mi)
    /\ retval = initial_retval(cfg)
    /\ truth = initial_retval(cfg)
    /\ batch_cnt = 0
    /\ previous_data = EmptyDict
    /\ current_data = EmptyDict
    /\ diffed = EmptyDict
    /\ rows = EmptyDict
    /\ printed = FALSE
    /\ headers = 1
    /\ interval = 1
    /\ errs = {}
    /\ prev_errs = {}
    /\ prev_truth = EmptyDict
    /\ events = 0
    /\ exc = "none"
    /\ exit_code = 0

\* fetch_and_update, lines 290-372, on the response resp
HandleResponse ==
    /\ pc = "fetch"
    /\ resp # NoResponse
    /\ retval' = fetch_and_update(retval, metrics[mi], resp, cfg)
    /\ pc' = "fetched"
    /\ UNCHANGED <<cfg, batch_cnt, previous_data, current_data, mi, resp,
                   diffed, rows, printed, headers, interval, errs, prev_errs,
                   truth, prev_truth, events, exc, exit_code>>

NextAgg == HandleResponse

SpecAgg == InitAgg /\ [][NextAgg]_vars

----------------------------------------------------------------------------
(* print_dataline as a function of the data it is given.                   *)

PrintNames == {"Reads", "Ranges", "Writes", "Compactions"}

PrintCells == {-1, 0, 1}

\* the dicts over PrintNames: each name absent or bound to a cell
PrintMetricData ==
    UNION {[N -> PrintCells] : N \in SUBSET PrintNames}

\* "total" is the key of the aggregate (line 394) and, at keyspace
\* granularity, also the key of a keyspace named total (lines 349-358)
PrintNamespaces == {TOTAL, <<"ks1">>}

PrintData ==
    UNION {[N -> PrintMetricData] : N \in SUBSET PrintNamespaces}

PrintConfigs ==
    [show_system : {FALSE}, show_keyspace : {TRUE}, show_cfs : {FALSE},
     show_total : BOOLEAN, show_zeros : BOOLEAN,
     namespaces : {<<>>}, header_rows : {0}]

InitPrint ==
    /\ cfg \in PrintConfigs
    /\ pc = "print"
    /\ diffed \in PrintData
    /\ mi = Len(metrics) + 1
    /\ resp = NoResponse
    /\ retval = EmptyDict
    /\ truth = EmptyDict
    /\ batch_cnt = 1
    /\ previous_data = EmptyDict
    /\ current_data = EmptyDict
    /\ rows = EmptyDict
    /\ printed = FALSE
    /\ headers = 1
    /\ interval = 2
    /\ errs = {}
    /\ prev_errs = {}
    /\ prev_truth = EmptyDict
    /\ events = 0
    /\ exc = "none"
    /\ exit_code = 0

NextPrint == PrintDataline

SpecPrint == InitPrint /\ [][NextPrint]_vars


----------------------------------------------------------------------------
(* Properties.                                                             *)

Name(i) == metrics[i].display_name

\* the value of a cell of a snapshot, 0 when the namespace or name is missing
Cell(data, ns, name) == Get(Get(data, ns, EmptyDict), name, 0)

\* the DIFF+FILTER+EMIT stage of the current iteration is over: print_data
\* returned, or an exception raised inside it ended the process
StageOver ==
    \/ pc = "advance"
    \/ pc = "exited" /\ exc = "TypeError"

SumDiffMetrics == {i \in DOMAIN metrics : metrics[i].sum /\ metrics[i].diff}

\* C1: for a Sum, diff=true metric the first iteration prints no data line
\* and only stores its snapshot as the baseline; in every later iteration
\* that has a previous snapshot, the line printed for a namespace carries the
\* iteration's aggregate minus the preceding iteration's aggregate, and a
\* namespace whose significant counter moved has its line printed.
C1_BaselineThenDelta ==
    /\ interval = 1 => ~printed
    /\ (interval = 1 /\ pc = "loop") => previous_data = current_data
    /\ (StageOver /\ Truthy(previous_data)) =>
          \A ns \in DOMAIN current_data : \A i \in SumDiffMetrics :
             LET delta == Cell(current_data, ns, Name(i))
                          - Cell(previous_data, ns, Name(i))
             IN /\ ns \in DOMAIN rows => rows[ns][Name(i)] = delta
                /\ (metrics[i].nonzero /\ delta # 0) => ns \in DOMAIN rows

\* C2: the loop ends only by a keyboard interrupt or a connection failure:
\* no other exception ends the process, in particular not in an iteration
\* whose DIFF+FILTER+EMIT stage runs against a previous snapshot.
C2_LoopNeverStops ==
    pc = "exited" => exc \in {"KeyboardInterrupt", "SystemExit"}

\* the namespaces the sample of an entry is accumulated into
Targets(entry, c) ==
    LET fields == parse_jmx_key(entry.key)
    IN IF ~included(c, fields) THEN {}
       ELSE ({select_ns(c, <<fields["keyspace"], fields["scope"]>>,
                        fields["keyspace"])} \ {None})
            \cup (IF c.show_total THEN {TOTAL} ELSE {})

\* the values of the samples of a value map that resolve to ns
Contributions(vm, ns, c) ==
    {i \in DOMAIN vm : ns \in Targets(vm[i], c)}

RECURSIVE SumOf(_, _)
SumOf(vm, I) ==
    IF I = {} THEN 0
    ELSE LET i == CHOOSE x \in I : TRUE
         IN vm[i].value + SumOf(vm, I \ {i})

MaxOf(vm, I) ==
    CHOOSE v \in {vm[i].value : i \in I} :
        \A w \in {vm[i].value : i \in I} : w <= v

Orders(vm) ==
    {q \in [DOMAIN vm -> Range(vm)] :
        \A e \in Range(vm) : \E i \in DOMAIN q : q[i] = e}

\* a value map was folded into the snapshot by the call just made
Folded == pc = "fetched" /\ ~source_error(resp)

\* C3: for a Max-policy metric the value stored for a namespace, "total"
\* included, is the maximum of the samples that resolve to it, whatever the
\* order of arrival.
C3_MaxIsMaximum ==
    (Folded /\ ~metrics[mi].sum) =>
       \A q \in Orders(resp.value) :
          LET data == fetch_and_update(initial_retval(cfg), metrics[mi],
                                       OkResponse(q), cfg)
          IN \A ns \in DOMAIN retval :
                LET I == Contributions(resp.value, ns, cfg)
                IN I # {} =>
                     /\ Name(mi) \in DOMAIN retval[ns]
                     /\ retval[ns][Name(mi)] = MaxOf(resp.value, I)
                     /\ data[ns][Name(mi)] = MaxOf(resp.value, I)

\* C4: for a Sum-policy metric the value stored for a (namespace, name) is
\* the arithmetic sum of the samples that resolve to the namespace, a
\* namespace holds the name iff a sample resolves to it, and every order of
\* arrival of the samples gives the same snapshot.
C4_SumIsSum ==
    (Folded /\ metrics[mi].sum) =>
       /\ \A ns \in DOMAIN retval :
             LET I == Contributions(resp.value, ns, cfg)
             IN /\ DOMAIN retval[ns] = IF I = {} THEN {} ELSE {Name(mi)}
                /\ I # {} => retval[ns][Name(mi)] = SumOf(resp.value, I)
       /\ \A i \in DOMAIN resp.value :
             Targets(resp.value[i], cfg) \subseteq DOMAIN retval
       /\ \A q \in Orders(resp.value) :
             fetch_and_update(initial_retval(cfg), metrics[mi],
                              OkResponse(q), cfg) = retval

\* C4 witness: two samples of different values were summed into one
\* namespace
C4_Witness ==
    /\ Folded /\ metrics[mi].sum
    /\ \E ns \in DOMAIN retval :
          /\ ns # TOTAL
          /\ Cardinality(Contributions(resp.value, ns, cfg)) = 2
          /\ retval[ns][Name(mi)] = 3

\* print_dataline has run on the data in diffed
Emitted == pc = "exited" /\ exc = "TypeError" /\ interval = 2

SignificantNames == {"Reads", "Ranges", "Writes"}

\* some significant metric has a nonzero value in the metric data
Active(metric_data) ==
    \E n \in SignificantNames : n \in DOMAIN metric_data /\ metric_data[n] # 0

Fetched ==
    \/ pc \in {"diff", "print", "advance"}
    \/ pc = "exited" /\ exc = "TypeError"

\* C7: a source-reported error does not end the process; the snapshot of
\* the iteration holds what every other catalog entry contributed, and
\* nothing for the entry that failed; the loop goes on to the next
\* iteration.
C7_SourceErrorNotFatal ==
    errs # {} =>
       /\ pc = "exited" => exc \in {"KeyboardInterrupt", "SystemExit"}
       /\ pc = "fetch" =>
             \A ns \in DOMAIN truth : \A i \in DOMAIN metrics :
                Cell(retval, ns, Name(i))
                   = IF i \in errs THEN 0 ELSE Cell(truth, ns, Name(i))
       /\ Fetched =>
             \A ns \in DOMAIN truth : \A i \in DOMAIN metrics :
                Cell(current_data, ns, Name(i))
                   = IF i \in errs THEN 0 ELSE Cell(truth, ns, Name(i))

\* C8: after an iteration in which a metric was answered with an error, an
\* iteration that fetches it successfully reports for it what a run without
\* the error reports: its aggregate minus the aggregate the source held in
\* the preceding iteration (for a diff metric), for every namespace.
C8_ErrorDoesNotAffectLater ==
    (StageOver /\ prev_errs # {} /\ errs = {} /\ Truthy(prev_truth)) =>
       \A i \in prev_errs : \A ns \in DOMAIN current_data :
          /\ ns \in DOMAIN diffed
          /\ Name(i) \in DOMAIN diffed[ns]
          /\ diffed[ns][Name(i)]
                = diff_cell(metrics[i], current_data[ns], prev_truth, ns)

\* C9: a connection failure ends the process with status 1, and nothing
\* happens after it: no fetch, no data line.
C9_ConnectionFailureFatal ==
    /\ [](exc = "SystemExit" => (pc = "exited" /\ exit_code = 1))
    /\ [][exc = "SystemExit" => UNCHANGED <<mi, retval, rows, printed, interval>>]_vars

\* C9 witness: the connection failed in the second iteration, after some
\* fetches of it had succeeded
C9_Witness ==
    /\ exc = "SystemExit" /\ pc = "exited" /\ exit_code = 1
    /\ interval = 2 /\ mi > 1

\* C10: with header_rows = 0 the header is printed once, when the loop
\* starts, and never again.
C10_HeaderOnce ==
    cfg.header_rows = 0 =>
       /\ headers <= 1
       /\ interval >= 1 => headers = 1

\* C11: with header_rows = N >= 1 a header line printed inside the loop is
\* preceded by N emitted data intervals since the header before it.  The
\* first iteration emits no data interval, so iteration k starts with at most
\* k - 2 of them emitted, and the second header line is not printed before
\* iteration N + 2.
C11_HeaderEveryN ==
    (cfg.header_rows >= 1 /\ headers >= 2) => interval >= cfg.header_rows + 2

\* the namespaces of the current snapshot the previous snapshot lacks
MissingPrevious == DOMAIN current_data \ DOMAIN previous_data

DiffMetrics == {i \in DOMAIN metrics : metrics[i].diff}

Gauges == {i \in DOMAIN metrics : ~metrics[i].diff}

\* C12: in an iteration that has a previous snapshot, for a namespace of the
\* current snapshot that the previous one lacks, no error occurs and the
\* output of every diff=true metric is its current aggregate.
C12_MissingPreviousLaw ==
    (StageOver /\ Truthy(previous_data) /\ MissingPrevious # {}) =>
       /\ exc # "TypeError"
       /\ \A ns \in MissingPrevious : \A i \in DiffMetrics :
             /\ ns \in DOMAIN diffed
             /\ Name(i) \in DOMAIN diffed[ns]
             /\ diffed[ns][Name(i)] = Cell(current_data, ns, Name(i))

\* C13: when the aggregate of a counter is lower than in the preceding
\* iteration, the diffed value is the negative difference, and the line of
\* the namespace is printed with that value when the counter is significant.
C13_NegativeDiffSurfaces ==
    (StageOver /\ Truthy(previous_data)) =>
       \A ns \in DOMAIN current_data : \A i \in DiffMetrics :
          LET delta == Cell(current_data, ns, Name(i))
                       - Cell(previous_data, ns, Name(i))
          IN delta < 0 =>
                /\ Cell(diffed, ns, Name(i)) = delta
                /\ metrics[i].nonzero =>
                      /\ ns \in DOMAIN rows
                      /\ rows[ns][Name(i)] = delta

\* C20: for every metric with diff = false and every namespace of the
\* current snapshot, the output value is the current snapshot's value, 0 when
\* the snapshot has none, whatever the previous snapshot holds.
C20_GaugesPassThrough ==
    (StageOver /\ Truthy(previous_data)) =>
       \A ns \in DOMAIN current_data : \A i \in Gauges :
          /\ ns \in DOMAIN diffed
          /\ Name(i) \in DOMAIN diffed[ns]
          /\ diffed[ns][Name(i)] = Cell(current_data, ns, Name(i))

\* C16: a keyboard interrupt ends the process with status 0, and once it is
\* received no fetch is started, no iteration begins and no header or data
\* line is printed.
C16_InterruptExitsCleanly ==
    /\ [](exc = "KeyboardInterrupt" => (pc = "exited" /\ exit_code = 0))
    /\ [][exc = "KeyboardInterrupt" =>
             UNCHANGED <<mi, retval, current_data, rows, printed, headers,
                         interval>>]_vars

\* C16 witness: the interrupt arrived in the second iteration, between two
\* fetches of get_data
C16_Witness ==
    /\ exc = "KeyboardInterrupt" /\ pc = "exited" /\ exit_code = 0
    /\ interval = 2 /\ mi > 1 /\ mi <= Len(metrics)

----------------------------------------------------------------------------
(* The rules of the aggregation, stated on the samples of a response.      *)

\* the sample carries a parent-resource attribute
HasParent(entry) ==
    \E i \in DOMAIN entry.key.kvs : entry.key.kvs[i][1] = "keyspace"

Parent(entry) == parse_jmx_key(entry.key)["keyspace"]

Child(entry) == parse_jmx_key(entry.key)["scope"]

\* the built-in system resources
SystemResources == {"system", "system_keyspaces", "system_auth"}

\* the sample passes the system-resource filter
PassesSystemFilter(entry, c) ==
    c.show_system \/ Parent(entry) \notin SystemResources

\* the allow-list admits the sample: it is empty, or "parent.child" is an
\* entry with a dot, or the parent is an entry without a dot
Listed(entry, c) ==
    \/ c.namespaces = <<>>
    \/ \E i \in DOMAIN c.namespaces :
          \/ Len(c.namespaces[i]) = 2
             /\ c.namespaces[i] = <<Parent(entry), Child(entry)>>
          \/ Len(c.namespaces[i]) = 1
             /\ c.namespaces[i] = <<Parent(entry)>>

\* the samples of a value map no rule excludes
Included(vm, c) ==
    {i \in DOMAIN vm : /\ HasParent(vm[i])
                       /\ PassesSystemFilter(vm[i], c)
                       /\ Listed(vm[i], c)}

\* the value map without its i-th sample
Remove(vm, i) == SubSeq(vm, 1, i - 1) \o SubSeq(vm, i + 1, Len(vm))

\* the snapshot the call builds from the response without its i-th sample
Without(i) ==
    fetch_and_update(initial_retval(cfg), metrics[mi],
                     OkResponse(Remove(resp.value, i)), cfg)

\* some accumulation target is enabled
SomeTarget(c) == c.show_cfs \/ c.show_keyspace \/ c.show_total

\* the namespace the sample is displayed under, given the granularity
DisplayNs(entry, c) ==
    IF c.show_cfs THEN <<Parent(entry), Child(entry)>> ELSE <<Parent(entry)>>

\* C14: a sample with a parent that passes the system-resource filter
\* contributes to the snapshot iff the allow-list is empty, or its
\* "parent.child" equals an entry with a dot, or its parent equals an entry
\* without a dot: a sample not admitted leaves the snapshot as it is without
\* it, an admitted one is stored under each enabled target.
C14_AllowList ==
    Folded =>
       \A i \in DOMAIN resp.value :
          LET e == resp.value[i]
          IN (HasParent(e) /\ PassesSystemFilter(e, cfg)) =>
                IF Listed(e, cfg)
                THEN /\ cfg.show_total => Name(mi) \in DOMAIN retval[TOTAL]
                     /\ (cfg.show_cfs \/ cfg.show_keyspace) =>
                           /\ DisplayNs(e, cfg) \in DOMAIN retval
                           /\ Name(mi) \in DOMAIN retval[DisplayNs(e, cfg)]
                     /\ (metrics[mi].sum /\ SomeTarget(cfg)) =>
                           retval # Without(i)
                ELSE retval = Without(i)

\* C14 witness: with the allow-list ["ks1", "ks2.cf3"] the response held
\* ks2.cf3 and ks2.cf4, and only the value of ks2.cf3 reached "total"
C14_Witness ==
    /\ Folded /\ cfg.show_total /\ metrics[mi].sum
    /\ cfg.namespaces = << <<"ks1">>, <<"ks2", "cf3">> >>
    /\ \E i, j \in Included(resp.value, [cfg EXCEPT !.namespaces = <<>>]) :
          /\ <<Parent(resp.value[i]), Child(resp.value[i])>> = <<"ks2", "cf3">>
          /\ <<Parent(resp.value[j]), Child(resp.value[j])>> = <<"ks2", "cf4">>
          /\ resp.value[i].value = 1
          /\ resp.value[j].value = 2
    /\ retval[TOTAL][Name(mi)] = 1

\* C15: with show_system false a sample whose parent is system,
\* system_keyspaces or system_auth contributes to no namespace and leaves
\* "total" as it is, whatever the other options are: the snapshot is the one
\* built without the sample, and folding one more such sample into it
\* changes nothing.
C15_SystemExcluded ==
    (Folded /\ ~cfg.show_system) =>
       /\ \A i \in DOMAIN resp.value :
             (HasParent(resp.value[i])
                /\ Parent(resp.value[i]) \in SystemResources)
             => retval = Without(i)
       /\ \A ks \in SystemResources : \A v \in AggValues :
             update_entry(retval,
                          [key |-> JmxKey(<<ks, "local">>, metrics[mi]),
                           value |-> v],
                          Name(mi), metrics[mi].sum, cfg) = retval

\* C15 witness: with show_system false and total enabled, the response held
\* a sample of system.local and a sample of ks1.cf1, and "total" holds the
\* value of the latter only
C15_Witness ==
    /\ Folded /\ ~cfg.show_system /\ cfg.show_total /\ cfg.namespaces = <<>>
    /\ \E i, j \in DOMAIN resp.value :
          /\ HasParent(resp.value[i]) /\ HasParent(resp.value[j])
          /\ Parent(resp.value[i]) = "system"
          /\ Parent(resp.value[j]) = "ks1"
          /\ resp.value[i].value = 2
          /\ resp.value[j].value = 1
    /\ retval[TOTAL][Name(mi)] = 1

\* C18: a sample without a parent, or excluded by the system-resource filter
\* or by the allow-list, changes no namespace and not "total"; with total
\* enabled, "total" holds the name iff some sample is included, for a Sum
\* metric its value is the sum of the included samples, and this is so
\* whatever show_cfs and show_keyspace are.
C18_TotalOfIncluded ==
    Folded =>
       LET Inc == Included(resp.value, cfg)
       IN /\ \A i \in (DOMAIN resp.value) \ Inc : retval = Without(i)
          /\ cfg.show_total =>
                /\ (Name(mi) \in DOMAIN retval[TOTAL]) <=> (Inc # {})
                /\ (Inc # {} /\ metrics[mi].sum) =>
                      retval[TOTAL][Name(mi)] = SumOf(resp.value, Inc)
                /\ \A i \in Inc : retval[TOTAL] # Without(i)[TOTAL]

\* C18 witness: with neither show_cfs nor show_keyspace, two included
\* samples of values 1 and 2 and a sample without a parent gave total 3
C18_Witness ==
    /\ Folded /\ cfg.show_total /\ ~cfg.show_cfs /\ ~cfg.show_keyspace
    /\ metrics[mi].sum
    /\ Cardinality(Included(resp.value, cfg)) = 2
    /\ DOMAIN retval = {TOTAL}
    /\ retval[TOTAL][Name(mi)] = 3

\* C19: with show_cfs every namespace of the snapshot other than "total" is
\* the "parent.child" of an included sample, also when show_keyspace is set
\* too; with show_keyspace only it is the bare parent of an included sample;
\* with neither the snapshot holds no namespace other than "total"; and
\* every included sample has its namespace in the snapshot.
C19_Granularity ==
    Folded =>
       LET Inc == Included(resp.value, cfg)
           Resources == DOMAIN retval \ {TOTAL}
       IN /\ cfg.show_cfs =>
                Resources = {<<Parent(resp.value[i]), Child(resp.value[i])>> :
                                i \in Inc}
          /\ (~cfg.show_cfs /\ cfg.show_keyspace) =>
                Resources = {<<Parent(resp.value[i])>> : i \in Inc}
          /\ (~cfg.show_cfs /\ ~cfg.show_keyspace) => Resources = {}

\* C19 witness: with show_cfs and show_keyspace both set, two column
\* families of one keyspace are two namespaces of the snapshot
C19_Witness ==
    /\ Folded /\ cfg.show_cfs /\ cfg.show_keyspace
    /\ {<<"ks2", "cf3">>, <<"ks2", "cf4">>} \subseteq DOMAIN retval
    /\ <<"ks2">> \notin DOMAIN retval

C21_OutputNamespacesAreCurrent ==
    (StageOver /\ Truthy(previous_data)) =>
       /\ DOMAIN diffed = DOMAIN current_data
       /\ \A ns \in DOMAIN previous_data \ DOMAIN current_data :
             ns \notin DOMAIN diffed /\ ns \notin DOMAIN rows

\* the DIFF+FILTER+EMIT stage of the current iteration was entered
StageEntered ==
    \/ pc \in {"diff", "print"}
    \/ pc = "exited" /\ exc = "TypeError"

\* C22: once get_data has returned, the DIFF+FILTER+EMIT stage is entered
\* iff the snapshot kept from the preceding iteration holds a namespace.
\* With show_total set that snapshot holds "total" from the second iteration
\* on; with show_total unset, an iteration that follows an empty snapshot
\* skips the stage although it is not the first: it computes no diff and
\* prints no line, also for a namespace that appears in it.
C22_StageIffPreviousNonEmpty ==
    /\ Fetched => (StageEntered <=> Truthy(previous_data))
    /\ (Fetched /\ ~Truthy(previous_data)) =>
          /\ pc = "advance"
          /\ diffed = EmptyDict
          /\ rows = EmptyDict
    /\ (Fetched /\ interval >= 2 /\ cfg.show_total) => Truthy(previous_data)

\* C22 witness: with show_total unset the second iteration follows an empty
\* snapshot, finds a namespace and skips the stage
C22_Witness ==
    /\ interval = 2 /\ pc = "advance" /\ ~cfg.show_total
    /\ previous_data = EmptyDict
    /\ Truthy(current_data)
    /\ diffed = EmptyDict /\ rows = EmptyDict

\* the retained snapshots are what get_data returned: current_data is the
\* value returned in this iteration, previous_data the value returned in
\* the preceding one, neither altered by diffdata or print_dataline
SnapshotsRaw ==
    /\ Fetched => current_data = retval
    /\ (pc = "loop" /\ interval >= 1) => previous_data = retval
    /\ prev_errs = {} => previous_data = prev_truth

\* C23: computing the diffed output leaves both retained snapshots as
\* get_data returned them, and the counter values emitted telescope: the
\* value emitted in an iteration for a namespace both snapshots hold is the
\* iteration's aggregate minus the preceding iteration's aggregate, so the
\* values emitted over iterations 2..k add up to aggregate_k - aggregate_1.
C23_SnapshotsRawAndTelescope ==
    /\ SnapshotsRaw
    /\ (StageOver /\ Truthy(previous_data)) =>
          \A ns \in DOMAIN current_data \cap DOMAIN previous_data :
             \A i \in DiffMetrics :
                /\ ns \in DOMAIN diffed
                /\ Name(i) \in DOMAIN diffed[ns]
                /\ diffed[ns][Name(i)]
                      = Cell(current_data, ns, Name(i))
                        - Cell(previous_data, ns, Name(i))

RECURSIVE SumCells(_, _, _)
\* the sum of a metric's values over a set of namespaces of a snapshot
SumCells(data, N, name) ==
    IF N = {} THEN 0
    ELSE LET ns == CHOOSE x \in N : TRUE
         IN Cell(data, ns, name) + SumCells(data, N \ {ns}, name)

\* C24: in a snapshot built with show_total set and show_cfs or
\* show_keyspace set, and no resource named "total", the value a Sum metric
\* has under "total" is the sum of its values over the other namespaces, and
\* "total" holds the metric iff some other namespace does.
C24_TotalIsSumOfNamespaces ==
    (Folded /\ cfg.show_total /\ (cfg.show_cfs \/ cfg.show_keyspace)
       /\ metrics[mi].sum) =>
       LET Others == DOMAIN retval \ {TOTAL}
       IN /\ Cell(retval, TOTAL, Name(mi)) = SumCells(retval, Others, Name(mi))
          /\ (Name(mi) \in DOMAIN retval[TOTAL])
                <=> (\E ns \in Others : Name(mi) \in DOMAIN retval[ns])

\* C24 witness: two column families of values 1 and 2 are two namespaces,
\* and "total" holds 3
C24_Witness ==
    /\ Folded /\ cfg.show_total /\ cfg.show_cfs /\ metrics[mi].sum
    /\ Cardinality(DOMAIN retval) = 3
    /\ \E a, b \in DOMAIN retval \ {TOTAL} :
          /\ Cell(retval, a, Name(mi)) = 1
          /\ Cell(retval, b, Name(mi)) = 2
    /\ Cell(retval, TOTAL, Name(mi)) = 3

=============================================================================
